---- MODULE Spec2Model ----
(***************************************************************************)
(* State-machine model of src/script.js: the browser client that records   *)
(* audio with a MediaRecorder, queues the recorded chunks and sends them   *)
(* one at a time to /api/analyze-chunk.                                     *)
(*                                                                         *)
(* Every action is one run-to-completion task of the JavaScript event loop *)
(* (a click handler, a promise continuation, a timer callback, a recorder  *)
(* or FileReader event).  A handler that awaits is split at each await.    *)
(***************************************************************************)
EXTENDS Naturals, Integers, Sequences, FiniteSets

\* ---------------------------------------------------------------- bounds
\* startRecording calls (streams ever acquired or awaited)
MaxStarts == 2
\* chunks ever pushed on analysisQueue
MaxChunks == 3
\* the same, in the runs of the recorder, the queue and the worker alone
MaxPipelineChunks == 5
\* the same, where processAudioChunk is also called directly
MaxDirectChunks == 3
\* the same, in the scenario of four chunks whose dispatches all fail
MaxScenarioChunks == 4
\* the same, in the runs that fill the timeline
MaxTimelineChunks == 11
\* the same, in the runs about starting and stopping
MaxSessionChunks == 2
\* the same, in the runs under fairness
MaxLiveChunks == 5
\* the same, in the runs that compare the two size filters
MaxFilterChunks == 3
\* the same, in the runs that record how each answer ended
MaxAnswerChunks == 5

\* ------------------------------------------------------- program constants
MIN_CHUNK_SIZE == 5000
\* the literal of `analysisQueue.length > 3`
SHED_THRESHOLD == 3
\* the literal of `emotionHistory.length > 10`
HISTORY_CAP == 10

\* ------------------------------------------------------------ input sets
RecIds == 1..MaxStarts
\* Blob sizes delivered by the recorder: below, at and above MIN_CHUNK_SIZE
Sizes == {MIN_CHUNK_SIZE - 1, MIN_CHUNK_SIZE, MIN_CHUNK_SIZE + 1}
\* Bodies of a successful, non-skipped /api/analyze-chunk response
Results == {[emotion |-> "happy", confidence |-> 92]}
\* The same, with two emotions, for the runs that record how each answer ended
TimelineResults == Results \cup {[emotion |-> "sad", confidence |-> 40]}
\* How a dispatched request ends: ok (result), ok (skipped), non-ok status,
\* or an exception caught by the inner catch (fetch rejects, a body that is
\* not JSON, updateUI throwing before it reaches emotionHistory)
Kinds == {"ok", "skipped", "rejected", "throw"}
ErrorKinds == {"rejected", "throw"}
\* What the body of a response may turn out to be, by response.ok
BodyKinds(status) ==
  IF status = "ok" THEN {"ok", "skipped", "throw"} ELSE {"rejected", "throw"}
\* Milliseconds passed since the date was last read
Ticks == {0, 1}
\* How the try block of startRecording ends once the stream is there: it runs
\* to its end, or the AudioContext constructor, the MediaRecorder constructor
\* (NotSupportedError for the mime type) or mediaRecorder.start() throws
StartOutcomes == {"started", "noContext", "noRecorder", "startThrows"}

\* `session_${Date.now()}`
SessionIdOf(t) == <<"session_", t>>
NoSession == <<>>

VARIABLES
  isRecording,      \* let isRecording
  mediaRecorder,    \* let mediaRecorder: 0 (undefined) or the recorder's index
  recState,         \* per stream, its recorder: none (no stream yet) | absent |
                    \* recording | flushing | inactive
  tracksLive,       \* per acquired stream: its tracks are live
  audioContext,     \* let audioContext: 0 (undefined) or the context's index
  ctxState,         \* per audio context: none | running | closed
  animationId,      \* let animationId: 0 (undefined) or the loop that requested it
  frames,           \* pending requestAnimationFrame callbacks, by loop
  sessionId,        \* let sessionId
  clock,            \* the date as last read (Date.now(), new Date())
  pendingStarts,    \* startRecording calls awaiting getUserMedia
  pendingStops,     \* stopRecording calls awaiting the end-session fetch
  endNotices,       \* session ids POSTed to /api/end-session, in order
  teardown,         \* steps executed by the latest stopRecording call that passed its guard
  startBtnDisabled, \* startBtn.disabled
  stopBtnDisabled,  \* stopBtn.disabled
  statusText,       \* recordingStatus span text
  probe,            \* checkStatus: pending | answered | ready | missing | connerror
  analysisQueue,    \* let analysisQueue
  isAnalyzing,      \* let isAnalyzing
  timers,           \* pending setTimeout(() => processQueue(), ..) callbacks
  reading,          \* blobs handed to reader.readAsDataURL, onloadend pending
  inflight,         \* requests to /api/analyze-chunk awaiting their response
                    \* (status sent) or its body (status ok | notok)
  emotionHistory,   \* const emotionHistory
  lastDispatched,   \* id of the latest blob sent to /api/analyze-chunk (0: none yet)
  nEnq,             \* chunks pushed on analysisQueue so far
  observed          \* how the latest network exchange ended, where a run records it

vars == <<isRecording, mediaRecorder, recState, tracksLive, audioContext, ctxState,
          animationId, frames, sessionId, clock, pendingStarts, pendingStops,
          endNotices, teardown, startBtnDisabled, stopBtnDisabled, statusText, probe,
          analysisQueue, isAnalyzing, timers, reading, inflight, emotionHistory,
          lastDispatched, nEnq, observed>>

recVars == <<isRecording, mediaRecorder, recState, tracksLive, audioContext, ctxState,
             animationId, frames, sessionId, clock, pendingStarts, pendingStops,
             endNotices, teardown>>
uiVars == <<startBtnDisabled, stopBtnDisabled, statusText, probe>>
queueVars == <<analysisQueue, isAnalyzing, timers, reading>>
logVars == <<lastDispatched, nEnq, observed>>

\* ------------------------------------------------------------------ Init
\* The globals as declared.  The markup is not part of the script: the start
\* button is enabled and the stop button disabled when the page loads, and
\* checkStatus() has been called and awaits its fetch.
Init ==
  /\ isRecording = FALSE
  /\ mediaRecorder = 0
  /\ recState = [i \in RecIds |-> "none"]
  /\ tracksLive = [i \in RecIds |-> FALSE]
  /\ audioContext = 0
  /\ ctxState = [i \in RecIds |-> "none"]
  /\ animationId = 0
  /\ frames = {}
  /\ sessionId = NoSession
  /\ clock = 1
  /\ pendingStarts = 0
  /\ pendingStops = 0
  /\ endNotices = <<>>
  /\ teardown = <<>>
  /\ startBtnDisabled = FALSE
  /\ stopBtnDisabled = TRUE
  /\ statusText = ""
  /\ probe = "pending"
  /\ analysisQueue = <<>>
  /\ isAnalyzing = FALSE
  /\ timers = 0
  /\ reading = {}
  /\ inflight = {}
  /\ emotionHistory = <<>>
  /\ lastDispatched = 0
  /\ nEnq = 0
  /\ observed = <<>>

\* --------------------------------------------------------------- helpers
AcceptAtIngestAny(size) == TRUE

\* ondataavailable: `event.data.size > MIN_CHUNK_SIZE`
AcceptAtIngest(size) == size > MIN_CHUNK_SIZE

TooSmallNever(size) == FALSE
\* processQueue: `audioBlob.size < MIN_CHUNK_SIZE`
TooSmall(size) == size < MIN_CHUNK_SIZE

WorkerIdleNever(flag) == FALSE

WorkerIdleAlways(flag) == TRUE
\* processAudioChunk: `if (!isAnalyzing)`
WorkerIdle(flag) == ~flag

PushFront(q, b) == <<b>> \o q
\* processAudioChunk: `analysisQueue.push(audioBlob)`
Push(q, b) == Append(q, b)

ShouldShedAny(q) == Len(q) > 0
\* error branch: `analysisQueue.length > 3`
ShouldShed(q) == Len(q) > SHED_THRESHOLD

StatusDetectedPlain(e) == "Recording..."

\* `Recording... (${result.emotion} detected)`
StatusDetected(e) ==
  CASE e = "happy" -> "Recording... (happy detected)"
    [] e = "sad" -> "Recording... (sad detected)"
    [] OTHER -> "Recording... (? detected)"

StatusSkippedStale == "Analyzing..."

\* the status text after a skipped chunk
StatusSkipped == "Recording..."

\* updateStatusText: `text.includes("error")`
IsErrorText(text) == text \in {"Recording... (analysis error)", "Recording... (error)"}

UpdateUIDropNewest(h, result, now) ==
  LET e == [timestamp |-> now, emotion |-> result.emotion,
            confidence |-> result.confidence]
  IN IF Len(h) >= HISTORY_CAP THEN <<e>> \o Tail(h) ELSE <<e>> \o h

\* updateUI: unshift the entry, pop the last one when longer than 10
UpdateUI(h, result, now) ==
  LET h2 == <<[timestamp |-> now, emotion |-> result.emotion,
               confidence |-> result.confidence]>> \o h
  IN IF Len(h2) > HISTORY_CAP THEN SubSeq(h2, 1, Len(h2) - 1) ELSE h2

\* streams acquired so far
NRec == Cardinality({i \in RecIds : recState[i] # "none"})

\* ----------------------------------------------------------- queue worker
RearmNever(tm) == tm

\* setTimeout(() => processQueue(), ..): one more pending callback
Rearm(tm) == tm + 1

\* processQueue(), called with the queue q and tm timers pending.  The outer
\* catch is not reached: readAsDataURL does not throw for a Blob.
ProcessQueue(q, tm) ==
  IF Len(q) = 0
  THEN /\ isAnalyzing' = FALSE
       /\ analysisQueue' = q
       /\ timers' = tm
       /\ reading' = reading
  ELSE LET audioBlob == Head(q) IN
       /\ isAnalyzing' = TRUE
       /\ analysisQueue' = Tail(q)
       /\ IF TooSmall(audioBlob.size)
          THEN timers' = Rearm(tm) /\ reading' = reading
          ELSE timers' = tm /\ reading' = reading \cup {audioBlob}

\* processAudioChunk(audioBlob)
ProcessAudioChunk(audioBlob) ==
  LET q == Push(analysisQueue, audioBlob) IN
  /\ IF WorkerIdle(isAnalyzing)
     THEN ProcessQueue(q, timers)
     ELSE analysisQueue' = q /\ UNCHANGED <<isAnalyzing, timers, reading>>
  /\ nEnq' = nEnq + 1

\* The Blob of a dataavailable event; sess records the value of sessionId
\* when the chunk is handed over (the Blob itself carries no session).
NewBlob(size) == [id |-> nEnq + 1, size |-> size, sess |-> sessionId]

\* mediaRecorder.ondataavailable
OnDataAvailable(size) ==
  IF AcceptAtIngest(size)
  THEN ProcessAudioChunk(NewBlob(size))
  ELSE UNCHANGED <<queueVars, nEnq>>

\* A size the recorder may deliver now (the count of queued chunks is capped)
Deliverable(size, cap) == AcceptAtIngest(size) => nEnq < cap

\* Recorder i delivers a timeslice chunk (mediaRecorder.start(CHUNK_DURATION))
RecorderTimeslice(cap) ==
  \E i \in RecIds, size \in Sizes :
    /\ recState[i] = "recording"
    /\ Deliverable(size, cap)
    /\ OnDataAvailable(size)
    /\ UNCHANGED <<recVars, uiVars, inflight, emotionHistory, lastDispatched, observed>>

\* The mark that tells one recorded delivery from the next
Flip(o) == IF Len(o) = 3 THEN 1 - o[3] ELSE 0

\* the same, in the runs that record the size of each chunk delivered
ObservedTimeslice(cap) ==
  \E i \in RecIds, size \in Sizes :
    /\ recState[i] = "recording"
    /\ Deliverable(size, cap)
    /\ OnDataAvailable(size)
    /\ observed' = <<"dataavailable", size, Flip(observed)>>
    /\ UNCHANGED <<recVars, uiVars, inflight, emotionHistory, lastDispatched>>

\* Recorder i, stopped, delivers its last chunk (the task queued by stop())
RecorderFlush(cap) ==
  \E i \in RecIds, size \in Sizes :
    /\ recState[i] = "flushing"
    /\ Deliverable(size, cap)
    /\ OnDataAvailable(size)
    /\ recState' = [recState EXCEPT ![i] = "inactive"]
    /\ UNCHANGED <<isRecording, mediaRecorder, tracksLive, audioContext, ctxState,
                   animationId, frames, sessionId, clock, pendingStarts, pendingStops,
                   endNotices, teardown>>
    /\ UNCHANGED <<uiVars, inflight, emotionHistory, lastDispatched, observed>>

\* A setTimeout(() => processQueue(), ..) callback runs
TimerFires ==
  /\ timers > 0
  /\ ProcessQueue(analysisQueue, timers - 1)
  /\ UNCHANGED <<recVars, uiVars, inflight, emotionHistory, logVars>>

\* reader.onloadend up to the await: status, then fetch with the current sessionId
ReaderLoadEnd ==
  \E b \in reading :
    LET req == [blob |-> b, session_id |-> sessionId, status |-> "sent"] IN
    /\ reading' = reading \ {b}
    /\ statusText' = "Analyzing..."
    /\ inflight' = inflight \cup {req}
    /\ lastDispatched' = b.id
    /\ UNCHANGED <<recVars, startBtnDisabled, stopBtnDisabled, probe, analysisQueue,
                   isAnalyzing, timers, emotionHistory, nEnq,
                   observed>>

\* reader.onloadend after `await fetch(..)`: a rejected fetch goes to the
\* catch and the finally; of a response, response.ok is tested and the body
\* is awaited (response.json())
FetchSettled(kinds) ==
  \E req \in inflight, kind \in kinds :
    /\ req.status = "sent"
    /\ IF kind = "throw"
       THEN /\ inflight' = inflight \ {req}
            /\ statusText' = "Recording... (error)"
            /\ timers' = Rearm(timers)
       ELSE /\ inflight' = (inflight \ {req}) \cup
                             {[req EXCEPT !.status =
                                 IF kind = "rejected" THEN "notok" ELSE "ok"]}
            /\ UNCHANGED <<statusText, timers>>
    /\ UNCHANGED <<recVars, startBtnDisabled, stopBtnDisabled, probe, analysisQueue,
                   isAnalyzing, reading, emotionHistory, logVars>>

\* reader.onloadend after `await response.json()`, for the request req whose
\* body turns out as kind (with result when it is a success), d milliseconds
\* after the date was last read: the branches on the body, then finally
Respond(req, kind, result, d) ==
  /\ req.status # "sent"
  /\ kind \in BodyKinds(req.status)
  /\ inflight' = inflight \ {req}
  /\ IF kind = "ok"
     THEN /\ clock' = clock + d
          /\ emotionHistory' = UpdateUI(emotionHistory, result, clock + d)
          /\ statusText' = StatusDetected(result.emotion)
          /\ analysisQueue' = analysisQueue
     ELSE IF kind = "skipped"
     THEN /\ statusText' = StatusSkipped
          /\ UNCHANGED <<clock, emotionHistory, analysisQueue>>
     ELSE IF kind = "rejected"
     THEN /\ statusText' = "Recording... (analysis error)"
          /\ analysisQueue' = IF ShouldShed(analysisQueue) THEN <<>> ELSE analysisQueue
          /\ UNCHANGED <<clock, emotionHistory>>
     ELSE /\ statusText' = "Recording... (error)"
          /\ UNCHANGED <<clock, emotionHistory, analysisQueue>>
  /\ timers' = Rearm(timers)
  /\ UNCHANGED <<isRecording, mediaRecorder, recState, tracksLive, audioContext,
                 ctxState, animationId, frames, sessionId, pendingStarts,
                 pendingStops, endNotices, teardown>>
  /\ UNCHANGED <<startBtnDisabled, stopBtnDisabled, probe, isAnalyzing,
                 reading, lastDispatched, nEnq>>

\* What a run records of the exchange: its kind, and the result of a success
Outcome(kind, result) == IF kind = "ok" THEN <<kind, result>> ELSE <<kind>>

\* the body of any answered request arrives
ClassifierResponse(kinds, results, ticks) ==
  \E req \in inflight, kind \in kinds, result \in results, d \in ticks :
    Respond(req, kind, result, d) /\ UNCHANGED observed

\* the same, in the runs that record how the exchange ended
ObservedResponse(kinds, results, ticks) ==
  \E req \in inflight, kind \in kinds, result \in results, d \in ticks :
    Respond(req, kind, result, d) /\ observed' = Outcome(kind, result)

\* ------------------------------------------------------------- status probe
\* checkStatus() after `await fetch("/api/check-status")`: the fetch rejected
\* (the catch), or it resolved and the body is awaited (response.json())
CheckStatusFetched ==
  \E resolved \in BOOLEAN :
    /\ probe = "pending"
    /\ probe' = IF resolved THEN "answered" ELSE "connerror"
    /\ startBtnDisabled' = IF resolved THEN startBtnDisabled ELSE TRUE
    /\ UNCHANGED <<recVars, stopBtnDisabled, statusText, queueVars, inflight,
                   emotionHistory, logVars>>

\* checkStatus() after `await response.json()`: configured, not configured,
\* or the catch (the body is not JSON)
CheckStatusSettled ==
  \E outcome \in {"ready", "missing", "connerror"} :
    /\ probe = "answered"
    /\ probe' = outcome
    /\ startBtnDisabled' = IF outcome = "ready" THEN startBtnDisabled ELSE TRUE
    /\ UNCHANGED <<recVars, stopBtnDisabled, statusText, queueVars, inflight,
                   emotionHistory, logVars>>

\* handleApiError(error), called from the page (nothing in the script calls it)
HandleApiError ==
  /\ startBtnDisabled' = TRUE
  /\ UNCHANGED <<recVars, stopBtnDisabled, statusText, probe, queueVars, inflight,
                 emotionHistory, logVars>>

\* ------------------------------------------------------------ startRecording
\* click on startBtn: startRecording() up to `await getUserMedia(..)`
StartClick ==
  /\ ~startBtnDisabled
  /\ NRec + pendingStarts < MaxStarts
  /\ pendingStarts' = pendingStarts + 1
  /\ UNCHANGED <<isRecording, mediaRecorder, recState, tracksLive, audioContext,
                 ctxState, animationId, frames, sessionId, clock, pendingStops,
                 endNotices, teardown>>
  /\ UNCHANGED <<uiVars, queueVars, inflight, emotionHistory, logVars>>

\* startRecording after its await, when getUserMedia resolved: the rest of
\* the try block, which runs to its end or is left for the catch (console.error,
\* alert) where a constructor or mediaRecorder.start() throws.  The new stream,
\* context, recorder and drawWaveform loop get the next index; the date is
\* read d milliseconds after it was last read.
BeginRecording(outcome) ==
  \E d \in Ticks :
    LET i == NRec + 1
        now == clock + d
    IN
    /\ pendingStarts > 0
    /\ pendingStarts' = pendingStarts - 1
    /\ tracksLive' = [tracksLive EXCEPT ![i] = TRUE]
    /\ IF outcome = "noContext"
       THEN /\ recState' = [recState EXCEPT ![i] = "absent"]
            /\ UNCHANGED <<audioContext, ctxState, mediaRecorder, clock, sessionId,
                           isRecording, startBtnDisabled, stopBtnDisabled,
                           statusText, animationId, frames>>
       ELSE /\ audioContext' = i
            /\ ctxState' = [ctxState EXCEPT ![i] = "running"]
            /\ IF outcome = "noRecorder"
               THEN /\ recState' = [recState EXCEPT ![i] = "absent"]
                    /\ UNCHANGED <<mediaRecorder, clock, sessionId, isRecording,
                                   startBtnDisabled, stopBtnDisabled, statusText,
                                   animationId, frames>>
               ELSE /\ mediaRecorder' = i
                    /\ clock' = now
                    /\ sessionId' = SessionIdOf(now)
                    /\ IF outcome = "startThrows"
                       THEN /\ recState' = [recState EXCEPT ![i] = "inactive"]
                            /\ UNCHANGED <<isRecording, startBtnDisabled,
                                           stopBtnDisabled, statusText, animationId,
                                           frames>>
                       ELSE /\ recState' = [recState EXCEPT ![i] = "recording"]
                            /\ isRecording' = TRUE
                            /\ startBtnDisabled' = TRUE
                            /\ stopBtnDisabled' = FALSE
                            /\ statusText' = "Recording... initializing"
                            \* drawWaveform(): isRecording is true, so a frame
                            \* is requested
                            /\ animationId' = i
                            /\ frames' = frames \cup {i}
    /\ UNCHANGED <<pendingStops, endNotices, teardown, probe, queueVars, inflight,
                   emotionHistory, lastDispatched, nEnq>>

\* getUserMedia resolves
GetUserMediaResolve ==
  \E outcome \in StartOutcomes : BeginRecording(outcome) /\ UNCHANGED observed

\* the same, in the runs that record how the exchange ended
ObservedStartResolved ==
  \E outcome \in StartOutcomes :
    BeginRecording(outcome) /\ observed' = <<"startRecording", outcome>>

\* startRecording after its await, when getUserMedia rejected: the catch
\* block (console.error, alert)
FailStart ==
  /\ pendingStarts > 0
  /\ pendingStarts' = pendingStarts - 1
  /\ UNCHANGED <<isRecording, mediaRecorder, recState, tracksLive, audioContext,
                 ctxState, animationId, frames, sessionId, clock, pendingStops,
                 endNotices, teardown>>
  /\ UNCHANGED <<uiVars, queueVars, inflight, emotionHistory, lastDispatched, nEnq>>

\* getUserMedia rejects
GetUserMediaReject == FailStart /\ UNCHANGED observed

\* the same, in the runs that record how the exchange ended
ObservedStartFailure == FailStart /\ observed' = <<"startRecording", "refused">>

\* A pending requestAnimationFrame callback of loop i runs drawWaveform()
AnimationFrame ==
  \E i \in frames :
    /\ IF ~isRecording
       THEN frames' = frames \ {i} /\ animationId' = animationId
       ELSE frames' = frames /\ animationId' = i
    /\ UNCHANGED <<isRecording, mediaRecorder, recState, tracksLive, audioContext,
                   ctxState, sessionId, clock, pendingStarts, pendingStops,
                   endNotices, teardown>>
    /\ UNCHANGED <<uiVars, queueVars, inflight, emotionHistory, logVars>>

\* The capture device is lost (unplugged, permission revoked): the tracks of
\* stream i end, which stops its recorder, when it records, and queues the
\* recorder's last dataavailable.
TrackEnded ==
  \E i \in RecIds :
    /\ tracksLive[i]
    /\ tracksLive' = [tracksLive EXCEPT ![i] = FALSE]
    /\ recState' = [recState EXCEPT ![i] = IF @ = "recording" THEN "flushing" ELSE @]
    /\ UNCHANGED <<isRecording, mediaRecorder, audioContext, ctxState, animationId,
                   frames, sessionId, clock, pendingStarts, pendingStops, endNotices,
                   teardown>>
    /\ UNCHANGED <<uiVars, queueVars, inflight, emotionHistory, logVars>>

\* ------------------------------------------------------------- stopRecording
\* The teardown steps of stopRecording, in source order
TeardownSteps ==
  <<"mediaRecorder.stop", "tracks.stop", "audioContext.close",
    "cancelAnimationFrame", "end-session">>

\* click on stopBtn: stopRecording() up to `await fetch("/api/end-session")`.
\* mediaRecorder.stop() on a recorder that is no longer recording either
\* returns or throws InvalidStateError, depending on the browser; a throw
\* leaves the async function at that statement.
StopClick ==
  \E stopThrows \in BOOLEAN :
    /\ ~stopBtnDisabled
    /\ IF mediaRecorder # 0 /\ isRecording
       THEN /\ isRecording' = FALSE
            /\ IF recState[mediaRecorder] # "recording" /\ stopThrows
               THEN /\ teardown' = <<>>
                    /\ UNCHANGED <<recState, tracksLive, ctxState, frames, endNotices,
                                   pendingStops>>
               ELSE /\ recState' = [recState EXCEPT ![mediaRecorder] =
                                      IF @ = "recording" THEN "flushing" ELSE @]
                    /\ tracksLive' = [tracksLive EXCEPT ![mediaRecorder] = FALSE]
                    /\ ctxState' = IF audioContext # 0
                                   THEN [ctxState EXCEPT ![audioContext] = "closed"]
                                   ELSE ctxState
                    /\ frames' = IF animationId # 0 THEN frames \ {animationId} ELSE frames
                    /\ endNotices' = Append(endNotices, sessionId)
                    /\ pendingStops' = pendingStops + 1
                    /\ teardown' = TeardownSteps
       ELSE UNCHANGED <<isRecording, recState, tracksLive, ctxState, frames, endNotices,
                        pendingStops, teardown>>
    /\ UNCHANGED <<mediaRecorder, audioContext, animationId, sessionId, clock,
                   pendingStarts>>
    /\ UNCHANGED <<uiVars, queueVars, inflight, emotionHistory, logVars>>

\* stopRecording after its await: the fetch resolved (ok), or it rejected and
\* the catch logged the error; both ways go on to "Update UI"
SettleEndSession(ok) ==
  /\ pendingStops > 0
  /\ pendingStops' = pendingStops - 1
  /\ startBtnDisabled' = FALSE
  /\ stopBtnDisabled' = TRUE
  /\ statusText' = "Recording stopped"
  /\ UNCHANGED <<isRecording, mediaRecorder, recState, tracksLive, audioContext,
                 ctxState, animationId, frames, sessionId, clock, pendingStarts,
                 endNotices, teardown>>
  /\ UNCHANGED <<probe, queueVars, inflight, emotionHistory, lastDispatched, nEnq>>

\* The end-session fetch settles
EndSessionSettled ==
  \E ok \in BOOLEAN : SettleEndSession(ok) /\ UNCHANGED observed

\* the same, in the runs that record how the exchange ended
ObservedEndSession ==
  \E ok \in BOOLEAN : SettleEndSession(ok) /\ observed' = <<"end-session", ok>>

\* --------------------------------------------------------- specifications
\* processAudioChunk(blob) called by something other than ondataavailable
DirectProcessAudioChunk(cap) ==
  \E size \in Sizes :
    /\ nEnq < cap
    /\ ProcessAudioChunk(NewBlob(size))
    /\ UNCHANGED <<recVars, uiVars, inflight, emotionHistory, lastDispatched, observed>>

Next ==
  \/ CheckStatusFetched
  \/ CheckStatusSettled
  \/ StartClick
  \/ GetUserMediaResolve
  \/ GetUserMediaReject
  \/ AnimationFrame
  \/ TrackEnded
  \/ RecorderTimeslice(MaxChunks)
  \/ RecorderFlush(MaxChunks)
  \/ TimerFires
  \/ ReaderLoadEnd
  \/ FetchSettled(Kinds)
  \/ ClassifierResponse(Kinds, Results, Ticks)
  \/ StopClick
  \/ EndSessionSettled

\* The page as wired: chunks reach the queue through ondataavailable only
Spec == Init /\ [][Next]_vars

\* The recorder, the queue and the worker: the page without the status probe
\* and the animation frames, which neither read nor write the queue, the
\* worker or the requests, and without the loss of the device, which ends a
\* recorder as a stop does.  Two starts, so that recordings overlap and follow
\* each other, and enough chunks for the queue to be cleared.
NextPipeline ==
  \/ StartClick
  \/ GetUserMediaResolve
  \/ GetUserMediaReject
  \/ RecorderTimeslice(MaxPipelineChunks)
  \/ RecorderFlush(MaxPipelineChunks)
  \/ TimerFires
  \/ ReaderLoadEnd
  \/ FetchSettled(Kinds)
  \/ ClassifierResponse(Kinds, Results, Ticks)
  \/ StopClick
  \/ EndSessionSettled

SpecPipeline == Init /\ [][NextPipeline]_vars

\* The page plus direct calls of its functions that nothing in the script
\* calls that way: processAudioChunk and handleApiError.  Left out are the status
\* probe and the animation frames, which neither read nor write the queue, the
\* worker or the requests, and the loss of the device, which only removes a
\* producer of chunks.
NextDirect ==
  \/ StartClick
  \/ GetUserMediaResolve
  \/ GetUserMediaReject
  \/ RecorderTimeslice(MaxDirectChunks)
  \/ RecorderFlush(MaxDirectChunks)
  \/ DirectProcessAudioChunk(MaxDirectChunks)
  \/ HandleApiError
  \/ TimerFires
  \/ ReaderLoadEnd
  \/ FetchSettled(Kinds)
  \/ ClassifierResponse(Kinds, Results, Ticks)
  \/ StopClick
  \/ EndSessionSettled

SpecDirect == Init /\ [][NextDirect]_vars

\* The runs of the page in which every dispatch fails (non-ok status or
\* exception) and at most MaxScenarioChunks chunks are recorded
NextScenario ==
  \/ StartClick
  \/ GetUserMediaResolve
  \/ GetUserMediaReject
  \/ RecorderTimeslice(MaxScenarioChunks)
  \/ RecorderFlush(MaxScenarioChunks)
  \/ TimerFires
  \/ ReaderLoadEnd
  \/ FetchSettled(ErrorKinds)
  \/ ClassifierResponse(ErrorKinds, Results, Ticks)
  \/ StopClick
  \/ EndSessionSettled

SpecScenario == Init /\ [][NextScenario]_vars

\* The runs of one recording whose dispatches all succeed, with or without a
\* result, long enough to fill emotionHistory beyond HISTORY_CAP
NextTimeline ==
  \/ (NRec = 0 /\ pendingStarts = 0 /\ StartClick)
  \/ GetUserMediaResolve
  \/ RecorderTimeslice(MaxTimelineChunks)
  \/ TimerFires
  \/ ReaderLoadEnd
  \/ FetchSettled({"ok", "skipped"})
  \/ ObservedResponse({"ok", "skipped"}, Results, Ticks)

SpecTimeline == Init /\ [][NextTimeline]_vars

\* The runs of one recording whose dispatches all succeed, with or without a
\* result, the result being one of two emotions
NextAnswers ==
  \/ (NRec = 0 /\ pendingStarts = 0 /\ StartClick)
  \/ GetUserMediaResolve
  \/ RecorderTimeslice(MaxAnswerChunks)
  \/ TimerFires
  \/ ReaderLoadEnd
  \/ FetchSettled({"ok", "skipped"})
  \/ ObservedResponse({"ok", "skipped"}, TimelineResults, Ticks)

SpecAnswers == Init /\ [][NextAnswers]_vars

\* The whole page with few chunks, recording how each failed start and each
\* end-session notice ended
NextSession ==
  \/ CheckStatusFetched
  \/ CheckStatusSettled
  \/ StartClick
  \/ ObservedStartResolved
  \/ ObservedStartFailure
  \/ AnimationFrame
  \/ TrackEnded
  \/ StopClick
  \/ ObservedEndSession
  \/ RecorderTimeslice(MaxSessionChunks)
  \/ RecorderFlush(MaxSessionChunks)
  \/ TimerFires
  \/ ReaderLoadEnd
  \/ FetchSettled(Kinds)
  \/ ClassifierResponse(Kinds, Results, Ticks)

SpecSession == Init /\ [][NextSession]_vars

\* One recording whose dispatches end in every way, under fairness: every
\* timer fires, every read and every classifier call ends.  The recorder is
\* under no obligation to deliver.
NextLive ==
  \/ (NRec = 0 /\ pendingStarts = 0 /\ StartClick)
  \/ GetUserMediaResolve
  \/ StopClick
  \/ EndSessionSettled
  \/ RecorderTimeslice(MaxLiveChunks)
  \/ RecorderFlush(MaxLiveChunks)
  \/ TimerFires
  \/ ReaderLoadEnd
  \/ FetchSettled(Kinds)
  \/ ClassifierResponse(Kinds, Results, Ticks)

SpecLive ==
  /\ Init /\ [][NextLive]_vars
  /\ WF_vars(TimerFires)
  /\ WF_vars(ReaderLoadEnd)
  /\ WF_vars(FetchSettled(Kinds))
  /\ WF_vars(ClassifierResponse(Kinds, Results, Ticks))

\* One recording plus direct calls of processAudioChunk, recording the size
\* of each chunk the recorder delivers: both size filters see every size
NextFilter ==
  \/ (NRec = 0 /\ pendingStarts = 0 /\ StartClick)
  \/ GetUserMediaResolve
  \/ ObservedTimeslice(MaxFilterChunks)
  \/ DirectProcessAudioChunk(MaxFilterChunks)
  \/ TimerFires
  \/ ReaderLoadEnd
  \/ FetchSettled({"ok"})
  \/ ClassifierResponse({"ok"}, Results, Ticks)

SpecFilter == Init /\ [][NextFilter]_vars

\* ------------------------------------------------------------------ claims
\* A processQueue chain is alive as a pending timer, a pending FileReader
\* load, or a request awaiting its response or the body of it
Chains == timers + Cardinality(reading) + Cardinality(inflight)

\* C1: at most one segment is in flight at any time and there is never more
\* than one active processQueue chain; a live chain holds isAnalyzing.
C1_OneInFlight ==
  /\ Chains <= 1
  /\ Chains = 1 => isAnalyzing

\* C1 witness: a request is in flight while two later chunks wait in the queue
C1_Witness == Cardinality(inflight) = 1 /\ Len(analysisQueue) >= 2

\* The queue holds its blobs in the order they were enqueued
QueueSorted(q) == \A j, k \in 1..Len(q) : j < k => q[j].id < q[k].id

\* C2: segments are dispatched in the order of their enqueue: a request is
\* sent only for a blob enqueued after every blob sent before and before
\* every blob still pending, and the queue is never reordered.
C2_Fifo ==
  [][/\ QueueSorted(analysisQueue')
     /\ lastDispatched' # lastDispatched =>
          /\ lastDispatched' > lastDispatched
          /\ \A k \in 1..Len(analysisQueue') : analysisQueue'[k].id > lastDispatched'
          /\ \A b \in reading' : b.id > lastDispatched']_vars

\* C2 witness: three blobs have been sent and two more wait in the queue
C2_Witness == lastDispatched = 3 /\ Len(analysisQueue) = 2

\* A step that handles the outcome of a classifier request
ResponseHandled == inflight' # inflight /\ inflight' \subseteq inflight

\* A step that handles it in an error branch
ErrorHandled == ResponseHandled /\ IsErrorText(statusText')

\* C3: after any dispatch error (non-ok response or exception), if more than
\* SHED_THRESHOLD segments are pending, the queue is empty right after the
\* error is handled.
C3_ShedAfterAnyError ==
  [][(ErrorHandled /\ Len(analysisQueue) > SHED_THRESHOLD) => analysisQueue' = <<>>]_vars

\* A step that handles the failure of the third dispatch, four chunks enqueued
ThirdFailure ==
  /\ nEnq = 4
  /\ \E req \in inflight : req.blob.id = 3
  /\ \A req \in inflight' : req.blob.id # 3

\* C4 as stated: four valid segments enqueued, the first three dispatches
\* fail: after the third failure the queue is empty, the status text
\* reflects an error, and the fourth segment is never dispatched.
C4_ScenarioAsStated ==
  [][/\ ThirdFailure => (analysisQueue' = <<>> /\ IsErrorText(statusText'))
     /\ nEnq = 4 => lastDispatched' # 4]_vars

\* C4 amended: four valid segments enqueued, the first three dispatches fail:
\* after the third failure the status text reflects an error and exactly the
\* fourth segment is still queued; the next run of processQueue takes it.
C4_ScenarioAmended ==
  [][/\ ThirdFailure =>
          /\ IsErrorText(statusText')
          /\ Len(analysisQueue') = 1
          /\ analysisQueue'[1].id = 4
     /\ (/\ nEnq = 4 /\ lastDispatched = 3 /\ inflight = {} /\ reading = {}
         /\ timers' < timers)
          => \E b \in reading' : b.id = 4]_vars

\* C4 witness: the third failure has been handled with four chunks enqueued
C4_Witness ==
  /\ nEnq = 4 /\ lastDispatched = 3 /\ inflight = {} /\ reading = {} /\ timers = 1
  /\ Len(analysisQueue) = 1
  /\ IsErrorText(statusText)

\* C5: no blob smaller than MIN_CHUNK_SIZE is read for or sent to the
\* classifier, whether it came through ondataavailable or a direct call.
C5_NoSmallDispatch ==
  /\ \A b \in reading : b.size >= MIN_CHUNK_SIZE
  /\ \A req \in inflight : req.blob.size >= MIN_CHUNK_SIZE

\* C5 witness: the one chunk enqueued so far left the queue without being
\* read or sent, and the worker waits for its retry timer (the small-chunk branch)
C5_Witness ==
  /\ nEnq = 1 /\ analysisQueue = <<>> /\ lastDispatched = 0
  /\ reading = {} /\ inflight = {} /\ timers = 1 /\ isAnalyzing

\* C6: once stopRecording has set the status to "Recording stopped", and
\* until a recording is started again, the outcome of a classifier request
\* changes neither the status text nor the timeline.
C6_IgnoredAfterStop ==
  [][(statusText = "Recording stopped" /\ ~isRecording /\ ResponseHandled)
       => (statusText' = statusText /\ emotionHistory' = emotionHistory)]_vars

\* Recorders that are recording
Producers == {i \in RecIds : recState[i] = "recording"}

\* C7: a start while a recording is active leaves sessionId, mediaRecorder
\* and the audio context as they are, and at most one recorder is recording.
C7_SingleSession ==
  [][/\ isRecording => /\ mediaRecorder' = mediaRecorder
                       /\ sessionId' = sessionId
                       /\ audioContext' = audioContext
     /\ Cardinality(Producers') <= 1]_vars

\* C8: every classifier request carries the session id that was current when
\* its segment was enqueued.
C8_SessionOfSegment == \A req \in inflight : req.session_id = req.blob.sess

\* A step in which stopRecording passes its guard
StopStep == mediaRecorder # 0 /\ isRecording /\ ~isRecording'

\* C9: every stopRecording of an active recording stops the recorder, stops
\* the tracks, closes the audio context, cancels the pending animation frame
\* and attempts one end-session notice for the session, in this order,
\* leaving the capture device released; a repeated stop sends no notice.
C9_StopTeardown ==
  [][/\ StopStep =>
          /\ teardown' = TeardownSteps
          /\ Producers' = {}
          /\ \A i \in RecIds : ~tracksLive'[i]
          /\ ctxState'[audioContext] = "closed"
          /\ animationId \notin frames'
          /\ endNotices' = Append(endNotices, sessionId)
     /\ ~isRecording => endNotices' = endNotices]_vars

\* C10: after the status probe has reported not configured, or has failed,
\* no recording is started and the start control stays disabled.
C10_NoStartUnconfigured ==
  [][(probe \in {"missing", "connerror"})
       => ((~isRecording => ~isRecording') /\ startBtnDisabled')]_vars

\* h with its oldest (last) entry dropped when it is full
KeptOf(h) == IF Len(h) >= HISTORY_CAP THEN SubSeq(h, 1, HISTORY_CAP - 1) ELSE h

\* C11: emotionHistory holds at most 10 entries, most recent first; a new
\* entry goes to the head and, when the capacity is exceeded, exactly the
\* oldest entry is evicted.
C11_BoundedTimeline ==
  [][/\ Len(emotionHistory') <= HISTORY_CAP
     /\ emotionHistory' # emotionHistory =>
          /\ Len(emotionHistory') >= 1
          /\ Tail(emotionHistory') = KeptOf(emotionHistory)]_vars

\* C11 witness: the timeline is full after the eleventh result, the first one
\* has been evicted (the oldest entry kept is later than a first result can
\* be: the date is at most 2 at the start and advances by at most 1 per
\* result), and time has passed between the entries
C11_Witness ==
  /\ Len(emotionHistory) = HISTORY_CAP
  /\ lastDispatched = 11 /\ inflight = {}
  /\ statusText = "Recording... (happy detected)"
  /\ emotionHistory[HISTORY_CAP].timestamp >= 4
  /\ emotionHistory[1].timestamp = emotionHistory[HISTORY_CAP].timestamp + 9

\* C12: a successful response marked skipped adds no timeline entry
\* (emotionHistory is unchanged) and the status goes back to "Recording...".
C12_SkippedAddsNothing ==
  [][(ResponseHandled /\ observed' = <<"skipped">>) =>
       (emotionHistory' = emotionHistory /\ statusText' = "Recording...")]_vars

\* C12 witness: a skipped response has been handled after a result was shown
C12_Witness ==
  /\ observed = <<"skipped">>
  /\ statusText = "Recording..."
  /\ Len(emotionHistory) = 2

\* C13: a successful response that is not skipped, with emotion e and
\* confidence c, puts an entry with exactly e and c at the head of the
\* timeline, and the status text contains e.
C13_ResultShown ==
  [][(ResponseHandled /\ Len(observed') = 2) =>
       /\ Len(emotionHistory') >= 1
       /\ emotionHistory'[1].emotion = observed'[2].emotion
       /\ emotionHistory'[1].confidence = observed'[2].confidence
       /\ Tail(emotionHistory') = KeptOf(emotionHistory)
       /\ observed'[2].emotion = "happy" => statusText' = "Recording... (happy detected)"
       /\ observed'[2].emotion = "sad" => statusText' = "Recording... (sad detected)"]_vars

\* C13 witness: a "sad" result with confidence 40 has been handled after a
\* "happy" one
C13_Witness ==
  /\ Len(observed) = 2 /\ observed[2].emotion = "sad"
  /\ Len(emotionHistory) = 2
  /\ emotionHistory[1].emotion = "sad" /\ emotionHistory[1].confidence = 40
  /\ emotionHistory[2].emotion = "happy"
  /\ statusText = "Recording... (sad detected)"

\* A step in which an end-session notice that failed is settled
NoticeFailed == pendingStops' < pendingStops /\ observed' = <<"end-session", FALSE>>

\* C14: when the end-session notice fails over the network, stopRecording
\* still completes locally, exactly as when the notice succeeds: isRecording
\* is false, the status is "Recording stopped", the start control is
\* enabled and the stop control disabled.
C14_StopCompletesOnFailedNotice ==
  [][NoticeFailed =>
       /\ ~isRecording'
       /\ statusText' = "Recording stopped"
       /\ ~startBtnDisabled'
       /\ stopBtnDisabled']_vars

\* The local completion alone, whatever isRecording is by then
C14_LocalUI ==
  [][NoticeFailed =>
       /\ statusText' = "Recording stopped"
       /\ ~startBtnDisabled'
       /\ stopBtnDisabled']_vars

\* A step in which a start that does not begin a recording is settled:
\* getUserMedia was refused, or a constructor or mediaRecorder.start() threw
StartFailed ==
  /\ pendingStarts' < pendingStarts
  /\ observed'[1] = "startRecording"
  /\ observed'[2] # "started"

\* C15: when the capture cannot be acquired the start fails back to Idle:
\* isRecording stays false, no session id is issued, the start control
\* remains usable, and the start creates nothing that enqueues or dispatches
\* a segment.
C15_FailedStartIsIdle ==
  [][StartFailed =>
       /\ ~isRecording => ~isRecording'
       /\ sessionId' = sessionId
       /\ ~startBtnDisabled => ~startBtnDisabled'
       /\ Producers' \subseteq Producers
       /\ analysisQueue' = analysisQueue /\ nEnq' = nEnq
       /\ reading' = reading /\ inflight' = inflight
       /\ lastDispatched' = lastDispatched /\ timers' = timers]_vars

\* A step in which a start whose getUserMedia was refused is settled
StartRefused ==
  pendingStarts' < pendingStarts /\ observed' = <<"startRecording", "refused">>

\* The refusal alone: nothing of the page changes, no stream or recorder exists
C15_RefusedStartIsIdle ==
  [][StartRefused =>
       /\ ~isRecording => ~isRecording'
       /\ sessionId' = sessionId
       /\ ~startBtnDisabled => ~startBtnDisabled'
       /\ mediaRecorder' = mediaRecorder /\ recState' = recState
       /\ tracksLive' = tracksLive
       /\ analysisQueue' = analysisQueue /\ nEnq' = nEnq
       /\ reading' = reading /\ inflight' = inflight
       /\ lastDispatched' = lastDispatched /\ timers' = timers]_vars

\* The only start so far was refused, and the page is idle
C15_RefusedWitness ==
  /\ observed = <<"startRecording", "refused">>
  /\ pendingStarts = 0 /\ mediaRecorder = 0
  /\ ~isRecording /\ sessionId = NoSession /\ ~startBtnDisabled
  /\ nEnq = 0 /\ lastDispatched = 0

\* Chunk k is waiting in analysisQueue
InQueue(k) == \E j \in 1..Len(analysisQueue) : analysisQueue[j].id = k

\* The worker is idle
WorkerAtRest == ~isAnalyzing /\ analysisQueue = <<>>

\* C16: under fairness every enqueued segment is eventually removed from the
\* queue, an error on a segment never halts the worker, and once no more
\* segments are produced the worker returns to idle (isAnalyzing = false
\* with an empty queue) and stays there.
C16_WorkerDrains ==
  /\ \A k \in 1..MaxLiveChunks : InQueue(k) ~> ~InQueue(k)
  /\ IsErrorText(statusText) ~> WorkerAtRest
  /\ <>[]WorkerAtRest

\* C16 witness: the first dispatch failed while four chunks were waiting,
\* the queue was cleared, and the worker has come to rest
C16_Witness ==
  /\ nEnq = MaxLiveChunks /\ lastDispatched = 1
  /\ statusText = "Recording... (analysis error)"
  /\ WorkerAtRest /\ timers = 0 /\ reading = {} /\ inflight = {}

\* A step in which the recorder delivers a chunk of size s
Delivered(s) ==
  /\ observed' # observed
  /\ Len(observed') = 3 /\ observed'[1] = "dataavailable" /\ observed'[2] = s

\* A step in which processQueue takes the head of a non-empty queue
HeadTaken ==
  /\ analysisQueue # <<>> /\ analysisQueue' = Tail(analysisQueue)
  /\ nEnq' = nEnq /\ isAnalyzing'

\* C17: the filter at ingestion (ondataavailable) and the filter of the
\* worker (processQueue) decide alike for every size: each rejects exactly
\* the sizes strictly below the threshold, so a chunk of exactly 5000 bytes
\* passes both.
C17_FiltersAgree ==
  [][/\ \A s \in Sizes :
          Delivered(s) => (nEnq' = nEnq + 1 <=> s >= MIN_CHUNK_SIZE)
     /\ HeadTaken =>
          (Head(analysisQueue) \in reading' <=>
             Head(analysisQueue).size >= MIN_CHUNK_SIZE)]_vars

\* The worker's half alone
C17_WorkerFilter ==
  [][HeadTaken =>
       (Head(analysisQueue) \in reading' <=>
          Head(analysisQueue).size >= MIN_CHUNK_SIZE)]_vars

\* C18: stopRecording releases its resources on every exit path, also when a
\* teardown step fails: once a stop has passed its guard and set isRecording
\* to false, the tracks of the recorder's stream are stopped, the audio
\* context is closed, and the end-session notice has been attempted.
C18_ReleasedOnEveryPath ==
  [][StopStep =>
       /\ ~tracksLive'[mediaRecorder]
       /\ ctxState'[audioContext] = "closed"
       /\ endNotices' = Append(endNotices, sessionId)]_vars

\* C19: between handlers, a non-empty analysisQueue implies isAnalyzing
\* (isAnalyzing is false only when the queue is empty), whatever the sequence
\* of enqueue, dispatch, shed, stop and start events.
C19_QueuedImpliesAnalyzing == Len(analysisQueue) > 0 => isAnalyzing

\* C19 witness: chunks wait in the queue of a busy worker during the second
\* recording, after a first one was stopped
C19_Witness ==
  /\ Len(analysisQueue) = 2 /\ isAnalyzing
  /\ mediaRecorder = 2 /\ isRecording /\ Len(endNotices) = 1

\* A step of processQueue through its small-chunk branch: the chunk taken is
\* neither read nor sent and a retry timer is armed
SmallBranch ==
  /\ isAnalyzing' /\ reading' = reading /\ inflight' = inflight
  /\ \/ /\ analysisQueue # <<>> /\ analysisQueue' = Tail(analysisQueue)
        /\ nEnq' = nEnq /\ timers' = timers
     \/ /\ nEnq' = nEnq + 1 /\ analysisQueue' = analysisQueue
        /\ timers' = timers + 1

\* C20: every segment in analysisQueue is strictly larger than
\* MIN_CHUNK_SIZE, so processQueue never takes its small-chunk branch.
C20_QueueHoldsLargeOnly ==
  [][/\ \A j \in 1..Len(analysisQueue') : analysisQueue'[j].size > MIN_CHUNK_SIZE
     /\ ~SmallBranch]_vars

\* C20 witness: two chunks wait in the queue while the first one is with the
\* worker
C20_Witness ==
  /\ Len(analysisQueue) = 2 /\ lastDispatched = 1
  /\ \A j \in 1..2 : analysisQueue[j].size = MIN_CHUNK_SIZE + 1

====
